---- MODULE Spec2Model ----
(***************************************************************************)
(* Budget tracker backend (src/server.js): an express application over one *)
(* sqlite3 database handle.  The model keeps the four tables, sqlite's     *)
(* AUTOINCREMENT bookkeeping and every request in flight.  A request is a  *)
(* small process: its handler schedules a statement (db.run / db.all /     *)
(* db.get), the store executes the statement atomically, and the           *)
(* statement's callback later runs on the event loop, where it either      *)
(* answers the request or schedules the next statement.  Statements of     *)
(* different requests interleave freely: the handle is in its default      *)
(* (parallel) mode when the handlers run.                                  *)
(***************************************************************************)
EXTENDS Integers, Sequences, FiniteSets, TLC

\* ------------------------------------------------------------------ bounds
\* Requests accepted in one behaviour, requests in flight at once, and store
\* faults (I/O error, disk full, ...) injected in one behaviour.
MaxRequests == 3
MaxInFlight == 2
MaxFaults == 1

\* ------------------------------------------------------------------ values
\* SQL NULL / a JSON field that is absent (undefined binds as NULL).  A value
\* that may be absent is the empty set or a singleton.
NULL == {}
Some(v) == {v}
Val(p) == CHOOSE v \in p : TRUE

\* The callbacks' err argument when the statement succeeded.
NoError == "null"

\* Messages of failures that do not depend on the statement's parameters.
StoreFaults == {"SQLITE_IOERR: disk I/O error"}
NoFault == "none"

NotNullFailed(table, column) == "SQLITE_CONSTRAINT: NOT NULL constraint failed: " \o table \o "." \o column

\* new Date().toISOString()
Timestamps == {"2026-01-01T00:00:00.000Z"}

\* req.body of POST /api/transactions.  Every field may be absent; the model
\* draws a complete body for each user, one without userid and one without
\* amount.
UserIdValues == {1, 2}
CompleteBody(userid) ==
  [ userid |-> userid, isExpense |-> Some(TRUE), amount |-> Some(500),
    categoryid |-> Some(2), description |-> Some("coffee") ]
TransactionBodies ==
  {CompleteBody(Some(u)) : u \in UserIdValues}
    \cup {CompleteBody(NULL), [CompleteBody(Some(1)) EXCEPT !.amount = NULL]}

\* req.params.transactionid of DELETE /api/transactions/:transactionid
TransactionIdValues == {1, 2}

\* req.body of POST /api/users
UserBodies ==
  [ username : {Some("a")}, password : {Some("p")}, email : {Some("a@x.com"), NULL} ]

\* token of POST /api/resettoken and of GET /api/resettoken?token=
TokenValues == {Some("tokA"), Some("tokB"), NULL}
ResetTokenBodies == [ token : TokenValues, expiresAt : {Some("2030-01-01T00:00:00.000Z")} ]

\* req.body of PUT /api/users and PUT /api/password
AssignBodies == [ userid : {Some(1), Some(2)}, tokenid : {Some(1), NULL} ]
PasswordBodies == [ userid : {Some(1), Some(2)}, password : {Some("q"), NULL} ]

\* ------------------------------------------------------------------ state
VARIABLES
  users,                     \* table users, in rowid order
  resetTokens,               \* table resetTokens, in rowid order
  transactions,              \* table transactions, in rowid order
  user_transaction_mapping,  \* table user_transaction_mapping, in rowid order
  sqlite_sequence,           \* AUTOINCREMENT: largest rowid ever used per table
  requests,                  \* id -> request (in flight or answered)
  db,                        \* the sqlite3.Database handle: open, locked, queue
  faults,                    \* store faults injected so far
  assigned,                  \* history: rowids ever assigned, per table
  deletedSinceInsert,        \* history: transactionids whose DELETE ran after their INSERT
  deletedSinceResponse       \* history: ... after the create request was answered 200

vars == << users, resetTokens, transactions, user_transaction_mapping,
           sqlite_sequence, requests, db, faults, assigned, deletedSinceInsert,
           deletedSinceResponse >>

tables == << users, resetTokens, transactions, user_transaction_mapping,
             sqlite_sequence >>
history == << assigned, deletedSinceInsert, deletedSinceResponse >>

\* ------------------------------------------------------------------ store
Max(a, b) == IF a >= b THEN a ELSE b

RECURSIVE MaxOf(_, _)
\* The largest value of column key in rows, 0 for an empty table.
MaxOf(rows, key) ==
  IF rows = <<>> THEN 0 ELSE Max(Head(rows)[key], MaxOf(Tail(rows), key))

\* Mutants: a rowid taken from the rows now stored (INTEGER PRIMARY KEY without
\* AUTOINCREMENT), and a rowid taken from the row count.
NextRowidOfStoredRows(seq, rows, key) == MaxOf(rows, key) + 1
NextRowidOfRowCount(seq, rows, key) == Len(rows) + 1

\* INTEGER PRIMARY KEY AUTOINCREMENT: one more than the largest rowid the table
\* has ever held (sqlite_sequence), deleted rows included.
NextRowid(seq, rows, key) == Max(seq, MaxOf(rows, key)) + 1

\* node-sqlite3 binds a JS boolean as the integer 1 or 0.
BindBoolean(p) == IF p = NULL THEN NULL ELSE Some(IF Val(p) THEN 1 ELSE 0)

\* The store's verdict on a statement: an injected fault, else the first NOT
\* NULL column (in table order) bound to NULL, else success.
RECURSIVE FirstNull(_, _, _)
FirstNull(table, columns, bound) ==
  IF columns = <<>> THEN NoError
  ELSE IF bound[Head(columns)] = NULL THEN NotNullFailed(table, Head(columns))
  ELSE FirstNull(table, Tail(columns), bound)

StatementError(fault, table, columns, bound) ==
  IF fault # NoFault THEN fault ELSE FirstNull(table, columns, bound)

\* CREATE TABLE users / resetTokens: the NOT NULL columns an INSERT binds.
UsersNotNull == << "username", "password", "email", "timestamp" >>
ResetTokensNotNull == << "token", "expiresAt" >>
\* CREATE TABLE transactions: the NOT NULL columns an INSERT binds.
TransactionsNotNull == << "isExpense", "amount", "categoryid", "timestamp" >>
\* CREATE TABLE user_transaction_mapping
MappingNotNull == << "userid", "transactionid" >>

\* SELECT t.* FROM transactions t INNER JOIN user_transaction_mapping utm
\*   ON t.transactionid = utm.transactionid WHERE utm.userid = ?
\* One result row per (t, utm) pair that joins; userId NULL matches nothing.
RECURSIVE JoinRows(_, _, _)
JoinRows(ts, utms, userId) ==
  IF ts = <<>> THEN <<>>
  ELSE LET t == Head(ts)
           hit(utm) == /\ utm.transactionid = t.transactionid
                       /\ userId # NULL
                       /\ utm.userid = Val(userId)
           n == Len(SelectSeq(utms, hit))
       IN [k \in 1..n |-> t] \o JoinRows(Tail(ts), utms, userId)

\* Mutant: the join made on the wrong column (ON t.transactionid = utm.userid).
SelectJoinedOnUserid(userId) ==
  SelectSeq(transactions,
            LAMBDA t : \E k \in DOMAIN user_transaction_mapping :
                         /\ user_transaction_mapping[k].userid = t.transactionid
                         /\ userId # NULL
                         /\ user_transaction_mapping[k].userid = Val(userId))

\* Mutant: the join without its WHERE clause.
SelectJoinedForAnyUser(userId) ==
  SelectSeq(transactions,
            LAMBDA t : \E k \in DOMAIN user_transaction_mapping :
                         user_transaction_mapping[k].transactionid = t.transactionid)

SelectTransactionsForUser(userId) ==
  JoinRows(transactions, user_transaction_mapping, userId)

\* ------------------------------------------------------------------ requests
InFlight == {i \in DOMAIN requests : requests[i].pc # "done"}
Answered == {i \in DOMAIN requests : requests[i].pc = "done"}

\* ------------------------------------------------------------------ handle
\* The tables of the schema, in the order db.serialize creates them.
Tables == << "users", "transactions", "user_transaction_mapping", "resetTokens" >>
TableSet == {Tables[k] : k \in DOMAIN Tables}

\* A call waiting in the handle's queue: a CREATE TABLE of the provisioning
\* block or the statement of request i.  exclusive is the handle's serialize
\* flag at the time the call was scheduled.
CreateCall(table, exclusive) == [table |-> table, request |-> 0, exclusive |-> exclusive]
RequestCall(i) == [table |-> "", request |-> i, exclusive |-> FALSE]

\* Mutant: the four CREATE TABLE statements scheduled outside db.serialize.
ProvisioningCallsInParallel == [k \in DOMAIN Tables |-> CreateCall(Tables[k], FALSE)]

\* db.serialize(() => { db.run(CREATE ...) x 4 })
ProvisioningCalls == [k \in DOMAIN Tables |-> CreateCall(Tables[k], TRUE)]

\* Request i's statement is not waiting in the queue.
Started(i) == \A k \in DOMAIN db.queue : db.queue[k].request # i

\* The handle's count of statements handed to the thread pool and not yet
\* completed.
Pending ==
  Cardinality(db.running)
    + Cardinality({i \in DOMAIN requests :
                     requests[i].pc \in {"run1", "run2"} /\ Started(i)})

\* Database::Process of an open handle: start queued calls in order, while
\* the handle is not locked or nothing is pending; an exclusive call waits for
\* pending to be 0, locks the handle and ends the round.
RECURSIVE Process(_, _, _, _)
Process(locked, pending, queue, running) ==
  IF queue = <<>> \/ (locked /\ pending > 0) \/ (Head(queue).exclusive /\ pending > 0)
  THEN [locked |-> locked, queue |-> queue, running |-> running]
  ELSE LET c == Head(queue)
           r == IF c.table # "" THEN running \cup {c.table} ELSE running
       IN IF c.exclusive
          THEN [locked |-> TRUE, queue |-> Tail(queue), running |-> r]
          ELSE Process(FALSE, pending + 1, Tail(queue), r)

\* Database::Schedule of the statement of a new request i (not exclusive): it
\* waits in the queue while the handle is not open, or is locked with
\* something pending; else it starts at once and the handle is not locked.
\* waited (history) holds the requests whose statement had to wait.
Schedule(i) ==
  IF ~db.open \/ (db.locked /\ Pending > 0)
  THEN [db EXCEPT !.queue = Append(@, RequestCall(i)), !.waited = @ \cup {i}]
  ELSE [db EXCEPT !.locked = FALSE]

\* The handle once provisioning is over and before the first request.
Provisioned ==
  [open |-> TRUE, locked |-> TRUE, queue |-> <<>>, running |-> {},
   schema |-> TableSet, runs |-> [t \in TableSet |-> 1], waited |-> {}]

\* new sqlite3.Database(dbPath) completes: the handle is open and starts what
\* is queued.
OpenDatabase ==
  /\ ~db.open
  /\ LET p == Process(db.locked, Pending, db.queue, db.running)
     IN db' = [db EXCEPT !.open = TRUE, !.locked = p.locked, !.queue = p.queue,
                         !.running = p.running]
  /\ UNCHANGED << users, resetTokens, transactions, user_transaction_mapping,
                  sqlite_sequence, requests, faults, assigned, deletedSinceInsert,
                  deletedSinceResponse >>

\* CREATE TABLE IF NOT EXISTS table completes: the table exists (its rows, if
\* it existed, are kept), and the handle starts what is queued.
RunCreateTable(table) ==
  /\ db.open
  /\ table \in db.running
  /\ LET p == Process(db.locked, Pending - 1, db.queue, db.running \ {table})
     IN db' = [db EXCEPT !.locked = p.locked, !.queue = p.queue,
                         !.running = p.running,
                         !.schema = @ \cup {table},
                         !.runs[table] = @ + 1]
  /\ UNCHANGED << users, resetTokens, transactions, user_transaction_mapping,
                  sqlite_sequence, requests, faults, assigned, deletedSinceInsert,
                  deletedSinceResponse >>

\* The express layer hands a request to its handler.
CanAccept == /\ Len(requests) < MaxRequests
             /\ Cardinality(InFlight) < MaxInFlight

\* issued counts the statements the handler has scheduled; after (history)
\* holds the requests already answered when its first statement ran.
NewRequest(route, in) ==
  [route |-> route, in |-> in, pc |-> "run1", issued |-> 1,
   err |-> NoError, lastID |-> 0, changes |-> 0, rows |-> <<>>,
   transactionid |-> 0, response |-> <<>>, after |-> {}]

\* The handler runs and calls db.run / db.all / db.get with its statement.
Accept(route, in) ==
  /\ CanAccept
  /\ requests' = Append(requests, NewRequest(route, in))
  /\ db' = Schedule(Len(requests) + 1)
  /\ UNCHANGED << tables, faults, history >>

\* A statement of request i, started by the handle, runs in the store; it may
\* hit a fault.  Nothing is queued behind it for the handle to start.
Running(i, route, pc, fault) ==
  /\ i \in DOMAIN requests
  /\ requests[i].route = route
  /\ requests[i].pc = pc
  /\ db.open
  /\ Started(i)
  /\ UNCHANGED db
  /\ fault \in StoreFaults \cup {NoFault}
  /\ fault # NoFault => faults < MaxFaults
  /\ faults' = IF fault # NoFault THEN faults + 1 ELSE faults

\* res.status(s).json(j), then the callback returns.
Respond(i, status, json) ==
  requests' = [requests EXCEPT ![i].pc = "done",
                               ![i].err = NoError, ![i].lastID = 0,
                               ![i].changes = 0, ![i].rows = <<>>,
                               ![i].response = Append(@, [status |-> status, json |-> json])]

\* A callback of request i runs.  A statement it schedules finds the handle
\* open and not locked, and starts at once.
InCallback(i, route, pc) ==
  /\ i \in DOMAIN requests
  /\ requests[i].route = route
  /\ requests[i].pc = pc
  /\ UNCHANGED db

Status(i) == requests[i].response[1].status
Json(i) == requests[i].response[1].json

\* The statement's callback receives err (and this.lastID, this.changes, rows).
Completed(i, pc, err, lastID, changes, rows) ==
  requests' = [requests EXCEPT ![i].pc = pc, ![i].err = err, ![i].lastID = lastID,
                               ![i].changes = changes, ![i].rows = rows,
                               ![i].after = IF pc = "cb1" THEN Answered ELSE @]

\* ------------------------------------------- GET /health
GetHealth == Accept("GET /health", [none |-> NULL])

\* SELECT 1
RunSelectOne(i, fault) ==
  /\ Running(i, "GET /health", "run1", fault)
  /\ Completed(i, "cb1", IF fault # NoFault THEN fault ELSE NoError, 0, 0, <<>>)
  /\ UNCHANGED << tables, history >>

\* Mutant: the health callback answering with err.message like the API routes.
GetHealthCallbackWithStoreMessage(i, timestamp) ==
  /\ InCallback(i, "GET /health", "cb1")
  /\ IF requests[i].err # NoError
     THEN Respond(i, 500, [error |-> requests[i].err])
     ELSE Respond(i, 200, [status |-> "healthy", timestamp |-> timestamp])
  /\ UNCHANGED << tables, faults, history >>

GetHealthCallback(i, timestamp) ==
  /\ InCallback(i, "GET /health", "cb1")
  /\ IF requests[i].err # NoError
     THEN Respond(i, 500, [status |-> "error", message |-> "Database connection failed"])
     ELSE Respond(i, 200, [status |-> "healthy", timestamp |-> timestamp])
  /\ UNCHANGED << tables, faults, history >>

\* ------------------------------------------- GET /api/users
GetUsers == Accept("GET /api/users", [none |-> NULL])

\* SELECT * FROM users
RunSelectUsers(i, fault) ==
  /\ Running(i, "GET /api/users", "run1", fault)
  /\ IF fault # NoFault
     THEN Completed(i, "cb1", fault, 0, 0, <<>>)
     ELSE Completed(i, "cb1", NoError, 0, 0, users)
  /\ UNCHANGED << tables, history >>

GetUsersCallback(i) ==
  /\ InCallback(i, "GET /api/users", "cb1")
  /\ IF requests[i].err # NoError
     THEN Respond(i, 500, [error |-> requests[i].err])
     ELSE Respond(i, 200, requests[i].rows)
  /\ UNCHANGED << tables, faults, history >>

\* ------------------------------------------- POST /api/users
PostUsers(body, timestamp) ==
  Accept("POST /api/users", [body |-> body, timestamp |-> timestamp])

\* INSERT INTO users (username, password, email, timestamp)
RunInsertUser(i, fault) ==
  /\ Running(i, "POST /api/users", "run1", fault)
  /\ LET body == requests[i].in.body
         bound == [username |-> body.username, password |-> body.password,
                   email |-> body.email, timestamp |-> Some(requests[i].in.timestamp)]
         err == StatementError(fault, "users", UsersNotNull, bound)
         id == NextRowid(sqlite_sequence["users"], users, "userid")
     IN IF err # NoError
        THEN /\ Completed(i, "cb1", err, 0, 0, <<>>)
             /\ UNCHANGED << tables, history >>
        ELSE /\ users' = Append(users,
                   [userid |-> id, username |-> Val(bound.username),
                    password |-> Val(bound.password), email |-> Val(bound.email),
                    timestamp |-> Val(bound.timestamp), resetTokenId |-> NULL])
             /\ sqlite_sequence' = [sqlite_sequence EXCEPT !["users"] = id]
             /\ assigned' = [assigned EXCEPT !["users"] = @ \cup {id}]
             /\ Completed(i, "cb1", NoError, id, 1, <<>>)
             /\ UNCHANGED << resetTokens, transactions, user_transaction_mapping,
                             deletedSinceInsert, deletedSinceResponse >>

PostUsersCallback(i) ==
  /\ InCallback(i, "POST /api/users", "cb1")
  /\ IF requests[i].err # NoError
     THEN Respond(i, 500, [error |-> requests[i].err])
     ELSE Respond(i, 200,
            [userid |-> requests[i].lastID, username |-> requests[i].in.body.username,
             email |-> requests[i].in.body.email, timestamp |-> requests[i].in.timestamp])
  /\ UNCHANGED << tables, faults, history >>

\* ------------------------------------------- GET /api/resettoken
GetResetToken(token) == Accept("GET /api/resettoken", [token |-> token])

\* Mutant: the first matching row only (db.get in place of db.all).
SelectFirstResetToken(token) ==
  LET hit(row) == token # NULL /\ row.token = Val(token)
      found == SelectSeq(resetTokens, hit)
  IN IF found = <<>> THEN <<>> ELSE << Head(found) >>

\* SELECT * FROM resetTokens WHERE token = ?   (token = NULL is never true)
SelectResetTokens(token) ==
  LET hit(row) == token # NULL /\ row.token = Val(token)
  IN SelectSeq(resetTokens, hit)

RunSelectResetTokens(i, fault) ==
  /\ Running(i, "GET /api/resettoken", "run1", fault)
  /\ IF fault # NoFault
     THEN Completed(i, "cb1", fault, 0, 0, <<>>)
     ELSE Completed(i, "cb1", NoError, 0, 0, SelectResetTokens(requests[i].in.token))
  /\ UNCHANGED << tables, history >>

GetResetTokenCallback(i) ==
  /\ InCallback(i, "GET /api/resettoken", "cb1")
  /\ IF requests[i].err # NoError
     THEN Respond(i, 500, [error |-> requests[i].err])
     ELSE Respond(i, 200, requests[i].rows)
  /\ UNCHANGED << tables, faults, history >>

\* ------------------------------------------- POST /api/resettoken
PostResetToken(body) == Accept("POST /api/resettoken", [body |-> body])

\* INSERT INTO resetTokens (token, expiresAt)
RunInsertResetToken(i, fault) ==
  /\ Running(i, "POST /api/resettoken", "run1", fault)
  /\ LET bound == requests[i].in.body
         err == StatementError(fault, "resetTokens", ResetTokensNotNull, bound)
         id == NextRowid(sqlite_sequence["resetTokens"], resetTokens, "id")
     IN IF err # NoError
        THEN /\ Completed(i, "cb1", err, 0, 0, <<>>)
             /\ UNCHANGED << tables, history >>
        ELSE /\ resetTokens' = Append(resetTokens,
                   [id |-> id, token |-> Val(bound.token), expiresAt |-> Val(bound.expiresAt)])
             /\ sqlite_sequence' = [sqlite_sequence EXCEPT !["resetTokens"] = id]
             /\ assigned' = [assigned EXCEPT !["resetTokens"] = @ \cup {id}]
             /\ Completed(i, "cb1", NoError, id, 1, <<>>)
             /\ UNCHANGED << users, transactions, user_transaction_mapping,
                             deletedSinceInsert, deletedSinceResponse >>

PostResetTokenCallback(i) ==
  /\ InCallback(i, "POST /api/resettoken", "cb1")
  /\ IF requests[i].err # NoError
     THEN Respond(i, 500, [error |-> requests[i].err])
     ELSE Respond(i, 200,
            [id |-> requests[i].lastID, token |-> requests[i].in.body.token,
             expiresAt |-> requests[i].in.body.expiresAt])
  /\ UNCHANGED << tables, faults, history >>

\* ------------------------------------------- PUT /api/users
PutUsers(body) == Accept("PUT /api/users", [body |-> body])

\* The rows of users an UPDATE ... WHERE userid = ? changes.
Matches(row, userid) == userid # NULL /\ row.userid = Val(userid)

\* resetTokenId is a TEXT column: a number bound to it is stored as its text.
TextOf(p) == IF p = NULL THEN NULL ELSE Some([text |-> Val(p)])

\* UPDATE users SET resetTokenId = ? WHERE userid = ?
RunUpdateResetTokenId(i, fault) ==
  /\ Running(i, "PUT /api/users", "run1", fault)
  /\ LET body == requests[i].in.body
         hit(row) == Matches(row, body.userid)
     IN IF fault # NoFault
        THEN /\ Completed(i, "cb1", fault, 0, 0, <<>>)
             /\ UNCHANGED << tables, history >>
        ELSE /\ users' = [k \in DOMAIN users |->
                   IF hit(users[k])
                   THEN [users[k] EXCEPT !.resetTokenId = TextOf(body.tokenid)]
                   ELSE users[k]]
             /\ Completed(i, "cb1", NoError, 0, Len(SelectSeq(users, hit)), <<>>)
             /\ UNCHANGED << resetTokens, transactions, user_transaction_mapping,
                             sqlite_sequence, history >>

\* Mutant: the callback with a check of this.changes (404 for no such user).
PutUsersCallbackWithNotFound(i) ==
  /\ InCallback(i, "PUT /api/users", "cb1")
  /\ IF requests[i].err # NoError
     THEN Respond(i, 500, [error |-> requests[i].err])
     ELSE IF requests[i].changes = 0
     THEN Respond(i, 404, [error |-> "User not found"])
     ELSE Respond(i, 200, [userid |-> requests[i].in.body.userid,
                           tokenid |-> requests[i].in.body.tokenid])
  /\ UNCHANGED << tables, faults, history >>

PutUsersCallback(i) ==
  /\ InCallback(i, "PUT /api/users", "cb1")
  /\ IF requests[i].err # NoError
     THEN Respond(i, 500, [error |-> requests[i].err])
     ELSE Respond(i, 200, [userid |-> requests[i].in.body.userid,
                           tokenid |-> requests[i].in.body.tokenid])
  /\ UNCHANGED << tables, faults, history >>

\* ------------------------------------------- PUT /api/password
PutPassword(body) == Accept("PUT /api/password", [body |-> body])

\* UPDATE users SET password = ? WHERE userid = ?
\* password is NOT NULL: the constraint fails when a row would receive NULL.
RunUpdatePassword(i, fault) ==
  /\ Running(i, "PUT /api/password", "run1", fault)
  /\ LET body == requests[i].in.body
         hit(row) == Matches(row, body.userid)
         n == Len(SelectSeq(users, hit))
         err == IF fault # NoFault THEN fault
                ELSE IF n > 0 /\ body.password = NULL
                THEN NotNullFailed("users", "password")
                ELSE NoError
     IN IF err # NoError
        THEN /\ Completed(i, "cb1", err, 0, 0, <<>>)
             /\ UNCHANGED << tables, history >>
        ELSE /\ users' = [k \in DOMAIN users |->
                   IF hit(users[k])
                   THEN [users[k] EXCEPT !.password = Val(body.password)]
                   ELSE users[k]]
             /\ Completed(i, "cb1", NoError, 0, n, <<>>)
             /\ UNCHANGED << resetTokens, transactions, user_transaction_mapping,
                             sqlite_sequence, history >>

PutPasswordCallback(i) ==
  /\ InCallback(i, "PUT /api/password", "cb1")
  /\ IF requests[i].err # NoError
     THEN Respond(i, 500, [error |-> requests[i].err])
     ELSE Respond(i, 200, [userid |-> requests[i].in.body.userid,
                           password |-> requests[i].in.body.password])
  /\ UNCHANGED << tables, faults, history >>

\* ------------------------------------------- POST /api/transactions
PostTransactions(body, timestamp) ==
  Accept("POST /api/transactions", [body |-> body, timestamp |-> timestamp])

\* Mutant: both inserts as one atomic unit, the mapping row stored with the
\* Transaction row.
RunInsertTransactionWithMapping(i, fault) ==
  /\ Running(i, "POST /api/transactions", "run1", fault)
  /\ LET body == requests[i].in.body
         bound == [isExpense |-> BindBoolean(body.isExpense), amount |-> body.amount,
                   categoryid |-> body.categoryid, description |-> body.description,
                   timestamp |-> Some(requests[i].in.timestamp), userid |-> body.userid]
         err == StatementError(fault, "transactions",
                               TransactionsNotNull \o << "userid" >>, bound)
         id == NextRowid(sqlite_sequence["transactions"], transactions, "transactionid")
     IN IF err # NoError
        THEN /\ Completed(i, "cb1", err, 0, 0, <<>>)
             /\ UNCHANGED << tables, history >>
        ELSE /\ transactions' = Append(transactions,
                   [transactionid |-> id, isExpense |-> Val(bound.isExpense),
                    amount |-> Val(bound.amount), categoryid |-> Val(bound.categoryid),
                    description |-> bound.description, timestamp |-> Val(bound.timestamp)])
             /\ user_transaction_mapping' = Append(user_transaction_mapping,
                   [userid |-> Val(bound.userid), transactionid |-> id])
             /\ sqlite_sequence' = [sqlite_sequence EXCEPT !["transactions"] = id]
             /\ assigned' = [assigned EXCEPT !["transactions"] = @ \cup {id}]
             /\ Completed(i, "cb1", NoError, id, 1, <<>>)
             /\ UNCHANGED << users, resetTokens, deletedSinceInsert, deletedSinceResponse >>

\* INSERT INTO transactions (isExpense, amount, categoryid, description, timestamp)
RunInsertTransaction(i, fault) ==
  /\ Running(i, "POST /api/transactions", "run1", fault)
  /\ LET body == requests[i].in.body
         bound == [isExpense |-> BindBoolean(body.isExpense), amount |-> body.amount,
                   categoryid |-> body.categoryid, description |-> body.description,
                   timestamp |-> Some(requests[i].in.timestamp)]
         err == StatementError(fault, "transactions", TransactionsNotNull, bound)
         id == NextRowid(sqlite_sequence["transactions"], transactions, "transactionid")
     IN IF err # NoError
        THEN /\ Completed(i, "cb1", err, 0, 0, <<>>)
             /\ UNCHANGED << tables, history >>
        ELSE /\ transactions' = Append(transactions,
                   [transactionid |-> id, isExpense |-> Val(bound.isExpense),
                    amount |-> Val(bound.amount), categoryid |-> Val(bound.categoryid),
                    description |-> bound.description, timestamp |-> Val(bound.timestamp)])
             /\ sqlite_sequence' = [sqlite_sequence EXCEPT !["transactions"] = id]
             /\ assigned' = [assigned EXCEPT !["transactions"] = @ \cup {id}]
             /\ Completed(i, "cb1", NoError, id, 1, <<>>)
             /\ UNCHANGED << users, resetTokens, user_transaction_mapping,
                             deletedSinceInsert, deletedSinceResponse >>

\* Mutant: the first callback without its err check.
PostCallback1WithoutErrorCheck(i) ==
  /\ InCallback(i, "POST /api/transactions", "cb1")
  /\ requests' = [requests EXCEPT ![i].pc = "run2", ![i].issued = 2,
                                  ![i].transactionid = requests[i].lastID]
  /\ UNCHANGED << tables, faults, history >>

\* Mutant: the error branch of the first callback without its return: the
\* request is answered 500 and the mapping insert is scheduled all the same.
PostCallback1WithoutReturn(i) ==
  /\ InCallback(i, "POST /api/transactions", "cb1")
  /\ requests' = [requests EXCEPT
                    ![i].pc = "run2", ![i].issued = 2,
                    ![i].transactionid = requests[i].lastID,
                    ![i].response = IF requests[i].err # NoError
                                    THEN Append(@, [status |-> 500,
                                                    json |-> [error |-> requests[i].err]])
                                    ELSE @]
  /\ UNCHANGED << tables, faults, history >>

\* Mutant: the first callback taking the largest stored transactionid in
\* place of this.lastID.
PostCallback1WithMaxId(i) ==
  /\ InCallback(i, "POST /api/transactions", "cb1")
  /\ IF requests[i].err # NoError
     THEN Respond(i, 500, [error |-> requests[i].err])
     ELSE requests' = [requests EXCEPT ![i].pc = "run2", ![i].issued = 2,
                                       ![i].transactionid =
                                          MaxOf(transactions, "transactionid")]
  /\ UNCHANGED << tables, faults, history >>

\* function (err) { ... const transactionid = this.lastID; db.run(INSERT mapping) }
PostTransactionsCallback1(i) ==
  /\ InCallback(i, "POST /api/transactions", "cb1")
  /\ IF requests[i].err # NoError
     THEN Respond(i, 500, [error |-> requests[i].err])
     ELSE requests' = [requests EXCEPT ![i].pc = "run2", ![i].issued = 2,
                                       ![i].transactionid = requests[i].lastID]
  /\ UNCHANGED << tables, faults, history >>

\* Mutant: a failed mapping insert takes the Transaction row back.
RunInsertMappingWithRollback(i, fault) ==
  /\ Running(i, "POST /api/transactions", "run2", fault)
  /\ LET bound == [userid |-> requests[i].in.body.userid,
                   transactionid |-> Some(requests[i].transactionid)]
         err == StatementError(fault, "user_transaction_mapping", MappingNotNull, bound)
     IN IF err # NoError
        THEN /\ Completed(i, "cb2", err, 0, 0, <<>>)
             /\ transactions' = SelectSeq(transactions,
                   LAMBDA row : row.transactionid # requests[i].transactionid)
             /\ UNCHANGED << users, resetTokens, user_transaction_mapping,
                             sqlite_sequence, history >>
        ELSE /\ user_transaction_mapping' = Append(user_transaction_mapping,
                   [userid |-> Val(bound.userid), transactionid |-> Val(bound.transactionid)])
             /\ Completed(i, "cb2", NoError, Len(user_transaction_mapping) + 1, 1, <<>>)
             /\ UNCHANGED << users, resetTokens, transactions, sqlite_sequence, history >>

\* INSERT INTO user_transaction_mapping (userid, transactionid)
RunInsertMapping(i, fault) ==
  /\ Running(i, "POST /api/transactions", "run2", fault)
  /\ LET bound == [userid |-> requests[i].in.body.userid,
                   transactionid |-> Some(requests[i].transactionid)]
         err == StatementError(fault, "user_transaction_mapping", MappingNotNull, bound)
     IN IF err # NoError
        THEN /\ Completed(i, "cb2", err, 0, 0, <<>>)
             /\ UNCHANGED << tables, history >>
        ELSE /\ user_transaction_mapping' = Append(user_transaction_mapping,
                   [userid |-> Val(bound.userid), transactionid |-> Val(bound.transactionid)])
             /\ Completed(i, "cb2", NoError, Len(user_transaction_mapping) + 1, 1, <<>>)
             /\ UNCHANGED << users, resetTokens, transactions, sqlite_sequence, history >>

\* Mutant: the second callback without its err check.
PostCallback2WithoutErrorCheck(i) ==
  /\ InCallback(i, "POST /api/transactions", "cb2")
  /\ LET body == requests[i].in.body
     IN Respond(i, 200,
          [transactionid |-> requests[i].transactionid, userid |-> body.userid,
           isExpense |-> body.isExpense, amount |-> body.amount,
           categoryid |-> body.categoryid, description |-> body.description,
           timestamp |-> requests[i].in.timestamp])
  /\ UNCHANGED << tables, faults, history >>

\* (err) => { ... res.json({transactionid, userid, isExpense, amount, ...}) }
PostTransactionsCallback2(i) ==
  /\ InCallback(i, "POST /api/transactions", "cb2")
  /\ IF requests[i].err # NoError
     THEN Respond(i, 500, [error |-> requests[i].err])
     ELSE LET body == requests[i].in.body
          IN Respond(i, 200,
               [transactionid |-> requests[i].transactionid, userid |-> body.userid,
                isExpense |-> body.isExpense, amount |-> body.amount,
                categoryid |-> body.categoryid, description |-> body.description,
                timestamp |-> requests[i].in.timestamp])
  /\ UNCHANGED << tables, faults, history >>

\* ------------------------------------------- GET /api/transactions/:userId
\* The path parameter is text; compared with the INTEGER column utm.userid it
\* takes numeric affinity, so "1" selects the rows whose userid is 1.
GetTransactions(userId) ==
  Accept("GET /api/transactions/:userId", [userId |-> Some(userId)])

RunSelectTransactions(i, fault) ==
  /\ Running(i, "GET /api/transactions/:userId", "run1", fault)
  /\ IF fault # NoFault
     THEN Completed(i, "cb1", fault, 0, 0, <<>>)
     ELSE Completed(i, "cb1", NoError, 0, 0, SelectTransactionsForUser(requests[i].in.userId))
  /\ UNCHANGED << tables, history >>

GetTransactionsCallback(i) ==
  /\ InCallback(i, "GET /api/transactions/:userId", "cb1")
  /\ IF requests[i].err # NoError
     THEN Respond(i, 500, [error |-> requests[i].err])
     ELSE Respond(i, 200, requests[i].rows)
  /\ UNCHANGED << tables, faults, history >>

\* ------------------------------------------- DELETE /api/transactions/:transactionid
DeleteTransactions(transactionid) ==
  Accept("DELETE /api/transactions/:transactionid", [transactionid |-> transactionid])

\* The POST /api/transactions requests answered 200 with transactionid t.
CreatedAndAnswered(t) ==
  {j \in Answered : /\ requests[j].route = "POST /api/transactions"
                     /\ Status(j) = 200
                     /\ Json(j).transactionid = t}

\* Mutant: the two deletes in the other order, the mapping rows first.
RunDeleteMappingFirst(i, fault) ==
  /\ Running(i, "DELETE /api/transactions/:transactionid", "run1", fault)
  /\ LET t == requests[i].in.transactionid
         keep(row) == row.transactionid # t
         kept == SelectSeq(transactions, keep)
     IN IF fault # NoFault
        THEN /\ Completed(i, "cb1", fault, 0, 0, <<>>)
             /\ UNCHANGED << tables, history >>
        ELSE /\ user_transaction_mapping' = SelectSeq(user_transaction_mapping, keep)
             /\ Completed(i, "cb1", NoError, 0, Len(transactions) - Len(kept), <<>>)
             /\ UNCHANGED << users, resetTokens, transactions, sqlite_sequence, history >>

\* DELETE FROM transactions WHERE transactionid = ?
RunDeleteTransaction(i, fault) ==
  /\ Running(i, "DELETE /api/transactions/:transactionid", "run1", fault)
  /\ LET t == requests[i].in.transactionid
         keep(row) == row.transactionid # t
         kept == SelectSeq(transactions, keep)
     IN IF fault # NoFault
        THEN /\ Completed(i, "cb1", fault, 0, 0, <<>>)
             /\ UNCHANGED << tables, history >>
        ELSE /\ transactions' = kept
             /\ Completed(i, "cb1", NoError, 0, Len(transactions) - Len(kept), <<>>)
             /\ deletedSinceInsert' =
                  IF t \in assigned["transactions"]
                  THEN deletedSinceInsert \cup {t} ELSE deletedSinceInsert
             /\ deletedSinceResponse' =
                  IF CreatedAndAnswered(t) # {}
                  THEN deletedSinceResponse \cup {t} ELSE deletedSinceResponse
             /\ UNCHANGED << users, resetTokens, user_transaction_mapping,
                             sqlite_sequence, assigned >>

\* Mutant: the callback without the this.changes === 0 check.
DeleteCallbackWithoutNotFound(i) ==
  /\ InCallback(i, "DELETE /api/transactions/:transactionid", "cb1")
  /\ IF requests[i].err # NoError
     THEN Respond(i, 500, [error |-> requests[i].err])
     ELSE requests' = [requests EXCEPT ![i].pc = "run2", ![i].issued = 2]
  /\ UNCHANGED << tables, faults, history >>

\* function (err) { ... if (this.changes === 0) 404 ...; db.run(DELETE mapping) }
DeleteTransactionsCallback1(i) ==
  /\ InCallback(i, "DELETE /api/transactions/:transactionid", "cb1")
  /\ IF requests[i].err # NoError
     THEN Respond(i, 500, [error |-> requests[i].err])
     ELSE IF requests[i].changes = 0
     THEN Respond(i, 404, [error |-> "Transaction not found"])
     ELSE requests' = [requests EXCEPT ![i].pc = "run2", ![i].issued = 2]
  /\ UNCHANGED << tables, faults, history >>

\* Mutant: the mapping delete without its WHERE clause.
RunDeleteEveryMapping(i, fault) ==
  /\ Running(i, "DELETE /api/transactions/:transactionid", "run2", fault)
  /\ IF fault # NoFault
     THEN /\ Completed(i, "cb2", fault, 0, 0, <<>>)
          /\ UNCHANGED << tables, history >>
     ELSE /\ user_transaction_mapping' = <<>>
          /\ Completed(i, "cb2", NoError, 0, Len(user_transaction_mapping), <<>>)
          /\ UNCHANGED << users, resetTokens, transactions, sqlite_sequence, history >>

\* DELETE FROM user_transaction_mapping WHERE transactionid = ?
RunDeleteMapping(i, fault) ==
  /\ Running(i, "DELETE /api/transactions/:transactionid", "run2", fault)
  /\ LET t == requests[i].in.transactionid
         keep(row) == row.transactionid # t
         kept == SelectSeq(user_transaction_mapping, keep)
     IN IF fault # NoFault
        THEN /\ Completed(i, "cb2", fault, 0, 0, <<>>)
             /\ UNCHANGED << tables, history >>
        ELSE /\ user_transaction_mapping' = kept
             /\ Completed(i, "cb2", NoError, 0, Len(user_transaction_mapping) - Len(kept), <<>>)
             /\ UNCHANGED << users, resetTokens, transactions, sqlite_sequence, history >>

\* Mutant: the second callback without its err check.
DeleteCallback2WithoutErrorCheck(i) ==
  /\ InCallback(i, "DELETE /api/transactions/:transactionid", "cb2")
  /\ Respond(i, 200,
       [message |-> << "Transaction ", requests[i].in.transactionid,
                       " deleted successfully" >>])
  /\ UNCHANGED << tables, faults, history >>

\* (err) => { ... res.json({message: `Transaction ${transactionid} deleted successfully`}) }
DeleteTransactionsCallback2(i) ==
  /\ InCallback(i, "DELETE /api/transactions/:transactionid", "cb2")
  /\ IF requests[i].err # NoError
     THEN Respond(i, 500, [error |-> requests[i].err])
     ELSE Respond(i, 200,
            [message |-> << "Transaction ", requests[i].in.transactionid,
                            " deleted successfully" >>])
  /\ UNCHANGED << tables, faults, history >>

\* ------------------------------------------------------------------ system
Init ==
  /\ users = <<>>
  /\ resetTokens = <<>>
  /\ transactions = <<>>
  /\ user_transaction_mapping = <<>>
  /\ sqlite_sequence = [t \in {"users", "transactions", "resetTokens"} |-> 0]
  /\ requests = <<>>
  /\ db = Provisioned
  /\ faults = 0
  /\ assigned = [t \in {"users", "transactions", "resetTokens"} |-> {}]
  /\ deletedSinceInsert = {}
  /\ deletedSinceResponse = {}

\* The process starts again over a database file that already holds a
\* transaction of user 1 (CREATE TABLE IF NOT EXISTS keeps what is stored).
InitPersisted ==
  /\ users = <<>>
  /\ resetTokens = <<>>
  /\ transactions = << [transactionid |-> 1, isExpense |-> 1, amount |-> 500,
                        categoryid |-> 2, description |-> Some("coffee"),
                        timestamp |-> "2026-01-01T00:00:00.000Z"] >>
  /\ user_transaction_mapping = << [userid |-> 1, transactionid |-> 1] >>
  /\ sqlite_sequence = [t \in {"users", "transactions", "resetTokens"} |->
                          IF t = "transactions" THEN 1 ELSE 0]
  /\ requests = <<>>
  /\ db = Provisioned
  /\ faults = 0
  /\ assigned = [t \in {"users", "transactions", "resetTokens"} |->
                   IF t = "transactions" THEN {1} ELSE {}]
  /\ deletedSinceInsert = {}
  /\ deletedSinceResponse = {}

\* The state when the module has been loaded: the handle is being opened, the
\* four CREATE TABLE calls wait in its queue, the routes are registered and
\* the server listens.  The database file is new or holds the schema already.
InitStartup ==
  /\ users = <<>>
  /\ resetTokens = <<>>
  /\ transactions = <<>>
  /\ user_transaction_mapping = <<>>
  /\ sqlite_sequence = [t \in {"users", "transactions", "resetTokens"} |-> 0]
  /\ requests = <<>>
  /\ \E schema \in {{}, TableSet} :
       db = [open |-> FALSE, locked |-> FALSE, queue |-> ProvisioningCalls,
             running |-> {}, schema |-> schema, runs |-> [t \in TableSet |-> 0],
             waited |-> {}]
  /\ faults = 0
  /\ assigned = [t \in {"users", "transactions", "resetTokens"} |-> {}]
  /\ deletedSinceInsert = {}
  /\ deletedSinceResponse = {}

RequestIds == 1..MaxRequests
Faults == StoreFaults \cup {NoFault}

\* The transaction routes.
NextTransactions ==
  \/ \E body \in TransactionBodies, ts \in Timestamps : PostTransactions(body, ts)
  \/ \E i \in RequestIds, f \in Faults : RunInsertTransaction(i, f)
  \/ \E i \in RequestIds : PostTransactionsCallback1(i)
  \/ \E i \in RequestIds, f \in Faults : RunInsertMapping(i, f)
  \/ \E i \in RequestIds : PostTransactionsCallback2(i)
  \/ \E u \in UserIdValues : GetTransactions(u)
  \/ \E i \in RequestIds, f \in Faults : RunSelectTransactions(i, f)
  \/ \E i \in RequestIds : GetTransactionsCallback(i)
  \/ \E t \in TransactionIdValues : DeleteTransactions(t)
  \/ \E i \in RequestIds, f \in Faults : RunDeleteTransaction(i, f)
  \/ \E i \in RequestIds : DeleteTransactionsCallback1(i)
  \/ \E i \in RequestIds, f \in Faults : RunDeleteMapping(i, f)
  \/ \E i \in RequestIds : DeleteTransactionsCallback2(i)

\* The reset token routes.
NextResetTokens ==
  \/ \E token \in TokenValues : GetResetToken(token)
  \/ \E i \in RequestIds, f \in Faults : RunSelectResetTokens(i, f)
  \/ \E i \in RequestIds : GetResetTokenCallback(i)
  \/ \E body \in ResetTokenBodies : PostResetToken(body)
  \/ \E i \in RequestIds, f \in Faults : RunInsertResetToken(i, f)
  \/ \E i \in RequestIds : PostResetTokenCallback(i)

\* The user routes.
NextUsers ==
  \/ GetUsers
  \/ \E i \in RequestIds, f \in Faults : RunSelectUsers(i, f)
  \/ \E i \in RequestIds : GetUsersCallback(i)
  \/ \E body \in UserBodies, ts \in Timestamps : PostUsers(body, ts)
  \/ \E i \in RequestIds, f \in Faults : RunInsertUser(i, f)
  \/ \E i \in RequestIds : PostUsersCallback(i)
  \/ \E body \in AssignBodies : PutUsers(body)
  \/ \E i \in RequestIds, f \in Faults : RunUpdateResetTokenId(i, f)
  \/ \E i \in RequestIds : PutUsersCallback(i)
  \/ \E body \in PasswordBodies : PutPassword(body)
  \/ \E i \in RequestIds, f \in Faults : RunUpdatePassword(i, f)
  \/ \E i \in RequestIds : PutPasswordCallback(i)

NextHealth ==
  \/ GetHealth
  \/ \E i \in RequestIds, f \in Faults : RunSelectOne(i, f)
  \/ \E i \in RequestIds, ts \in Timestamps : GetHealthCallback(i, ts)

Next == NextTransactions \/ NextResetTokens \/ NextUsers \/ NextHealth

\* Every route.
Spec == Init /\ [][Next]_vars

\* The routes grouped by the tables their statements read and write: the
\* transaction routes touch transactions and user_transaction_mapping only, the
\* reset token routes resetTokens only, the user routes users only.
SpecTransactions == Init /\ [][NextTransactions]_vars
SpecResetTokens == Init /\ [][NextResetTokens]_vars
SpecUsers == Init /\ [][NextUsers]_vars

\* The steps of the transaction routes that the store and the event loop take
\* on their own: sqlite3 runs every statement it was handed and calls its
\* callback, whatever the other requests do.
StepsTransactions ==
  \/ \E i \in RequestIds, f \in Faults : RunInsertTransaction(i, f)
  \/ \E i \in RequestIds : PostTransactionsCallback1(i)
  \/ \E i \in RequestIds, f \in Faults : RunInsertMapping(i, f)
  \/ \E i \in RequestIds : PostTransactionsCallback2(i)
  \/ \E i \in RequestIds, f \in Faults : RunSelectTransactions(i, f)
  \/ \E i \in RequestIds : GetTransactionsCallback(i)
  \/ \E i \in RequestIds, f \in Faults : RunDeleteTransaction(i, f)
  \/ \E i \in RequestIds : DeleteTransactionsCallback1(i)
  \/ \E i \in RequestIds, f \in Faults : RunDeleteMapping(i, f)
  \/ \E i \in RequestIds : DeleteTransactionsCallback2(i)

FairTransactions == SpecTransactions /\ WF_vars(StepsTransactions)

\* The statements that assign or retire generated keys: the three inserts and
\* the transaction delete, over a store that already holds a transaction.
NextKeys ==
  \/ \E body \in TransactionBodies, ts \in Timestamps : PostTransactions(body, ts)
  \/ \E i \in RequestIds, f \in Faults : RunInsertTransaction(i, f)
  \/ \E i \in RequestIds : PostTransactionsCallback1(i)
  \/ \E i \in RequestIds, f \in Faults : RunInsertMapping(i, f)
  \/ \E i \in RequestIds : PostTransactionsCallback2(i)
  \/ \E t \in TransactionIdValues : DeleteTransactions(t)
  \/ \E i \in RequestIds, f \in Faults : RunDeleteTransaction(i, f)
  \/ \E i \in RequestIds : DeleteTransactionsCallback1(i)
  \/ \E i \in RequestIds, f \in Faults : RunDeleteMapping(i, f)
  \/ \E i \in RequestIds : DeleteTransactionsCallback2(i)
  \/ \E body \in UserBodies, ts \in Timestamps : PostUsers(body, ts)
  \/ \E i \in RequestIds, f \in Faults : RunInsertUser(i, f)
  \/ \E i \in RequestIds : PostUsersCallback(i)
  \/ \E body \in ResetTokenBodies : PostResetToken(body)
  \/ \E i \in RequestIds, f \in Faults : RunInsertResetToken(i, f)
  \/ \E i \in RequestIds : PostResetTokenCallback(i)

SpecKeys == InitPersisted /\ [][NextKeys]_vars

\* Every route at once, with the bodies that make each statement of each
\* handler succeed and fail: a complete create, one without amount (the first
\* insert fails), one without userid (the second insert fails).
FewTransactionBodies ==
  {CompleteBody(Some(1)), CompleteBody(NULL), [CompleteBody(Some(1)) EXCEPT !.amount = NULL]}
FewPasswordBodies == {[userid |-> Some(1), password |-> NULL]}
FewAssignBodies == {[userid |-> Some(1), tokenid |-> Some(1)]}
FewTokenValues == {Some("tokA"), NULL}

NextEveryRoute ==
  \/ GetHealth
  \/ \E i \in RequestIds, f \in Faults : RunSelectOne(i, f)
  \/ \E i \in RequestIds, ts \in Timestamps : GetHealthCallback(i, ts)
  \/ GetUsers
  \/ \E i \in RequestIds, f \in Faults : RunSelectUsers(i, f)
  \/ \E i \in RequestIds : GetUsersCallback(i)
  \/ \E body \in UserBodies, ts \in Timestamps : PostUsers(body, ts)
  \/ \E i \in RequestIds, f \in Faults : RunInsertUser(i, f)
  \/ \E i \in RequestIds : PostUsersCallback(i)
  \/ \E token \in FewTokenValues : GetResetToken(token)
  \/ \E i \in RequestIds, f \in Faults : RunSelectResetTokens(i, f)
  \/ \E i \in RequestIds : GetResetTokenCallback(i)
  \/ \E token \in FewTokenValues :
       PostResetToken([token |-> token, expiresAt |-> Some("2030-01-01T00:00:00.000Z")])
  \/ \E i \in RequestIds, f \in Faults : RunInsertResetToken(i, f)
  \/ \E i \in RequestIds : PostResetTokenCallback(i)
  \/ \E body \in FewAssignBodies : PutUsers(body)
  \/ \E i \in RequestIds, f \in Faults : RunUpdateResetTokenId(i, f)
  \/ \E i \in RequestIds : PutUsersCallback(i)
  \/ \E body \in FewPasswordBodies : PutPassword(body)
  \/ \E i \in RequestIds, f \in Faults : RunUpdatePassword(i, f)
  \/ \E i \in RequestIds : PutPasswordCallback(i)
  \/ \E body \in FewTransactionBodies, ts \in Timestamps : PostTransactions(body, ts)
  \/ \E i \in RequestIds, f \in Faults : RunInsertTransaction(i, f)
  \/ \E i \in RequestIds : PostTransactionsCallback1(i)
  \/ \E i \in RequestIds, f \in Faults : RunInsertMapping(i, f)
  \/ \E i \in RequestIds : PostTransactionsCallback2(i)
  \/ GetTransactions(1)
  \/ \E i \in RequestIds, f \in Faults : RunSelectTransactions(i, f)
  \/ \E i \in RequestIds : GetTransactionsCallback(i)
  \/ DeleteTransactions(1)
  \/ \E i \in RequestIds, f \in Faults : RunDeleteTransaction(i, f)
  \/ \E i \in RequestIds : DeleteTransactionsCallback1(i)
  \/ \E i \in RequestIds, f \in Faults : RunDeleteMapping(i, f)
  \/ \E i \in RequestIds : DeleteTransactionsCallback2(i)

SpecEveryRoute == Init /\ [][NextEveryRoute]_vars

\* The process from its start: the handle opens, the schema is provisioned and
\* requests of the transaction and health routes arrive at any time.
NextStartup ==
  \/ OpenDatabase
  \/ \E table \in TableSet : RunCreateTable(table)
  \/ NextTransactions
  \/ NextHealth

SpecStartup == InitStartup /\ [][NextStartup]_vars

\* The thread pool completes what it was handed: the open and every CREATE.
FairStartup ==
  SpecStartup /\ WF_vars(OpenDatabase \/ \E table \in TableSet : RunCreateTable(table))

\* ------------------------------------------------------------------ claims
\* Vocabulary of the properties below.
PostTx == "POST /api/transactions"
GetTx == "GET /api/transactions/:userId"
DeleteTx == "DELETE /api/transactions/:transactionid"

\* Request i's statement at position pc runs in this step.
Runs(i, route, pc) ==
  /\ i \in DOMAIN requests
  /\ requests[i].route = route
  /\ requests[i].pc = pc
  /\ requests'[i].pc # pc

\* Request i is answered in this step.
Answers(i, route) ==
  /\ i \in DOMAIN requests
  /\ requests[i].route = route
  /\ requests[i].pc # "done"
  /\ requests'[i].pc = "done"

TransactionIds(rows) == {rows[k].transactionid : k \in DOMAIN rows}
MappingRowsOf(t) ==
  SelectSeq(user_transaction_mapping, LAMBDA row : row.transactionid = t)
HasTransaction(t) == t \in TransactionIds(transactions)

\* The creates answered 200 for user u.
CreatedFor(u) ==
  {j \in Answered : /\ requests[j].route = PostTx
                     /\ Status(j) = 200
                     /\ Json(j).userid = u}

\* C1 as stated: a list for user u that runs after a create for u was answered
\* 200 with transactionid t returns t, provided no DELETE of t ran since that
\* answer.
C1_ReadYourWrites_AsStated ==
  [][\A i \in RequestIds :
       (Runs(i, GetTx, "run1") /\ requests'[i].err = NoError) =>
         \A j \in CreatedFor(requests[i].in.userId) :
           Json(j).transactionid \notin deletedSinceResponse =>
             Json(j).transactionid \in TransactionIds(requests'[i].rows)]_vars

\* C1 amended: ... provided no DELETE of t ran since the create inserted the
\* Transaction row t (its step 1), be it before or after the create's answer.
C1_ReadYourWrites ==
  [][\A i \in RequestIds :
       (Runs(i, GetTx, "run1") /\ requests'[i].err = NoError) =>
         \A j \in CreatedFor(requests[i].in.userId) :
           Json(j).transactionid \notin deletedSinceInsert =>
             Json(j).transactionid \in TransactionIds(requests'[i].rows)]_vars

\* A list that ran after a create of the same user was answered 200 holds the
\* created transaction, with another transaction request in between.
C1_Witness ==
  \E i \in DOMAIN requests :
    /\ requests[i].route = GetTx
    /\ requests[i].pc = "cb1"
    /\ requests[i].err = NoError
    /\ \E j \in requests[i].after :
         /\ j \in CreatedFor(requests[i].in.userId)
         /\ Json(j).transactionid \in TransactionIds(requests[i].rows)
         /\ Json(j).transactionid \notin deletedSinceInsert
    /\ Cardinality(requests[i].after) = 2

\* ---- C2
DeletesOf(t, status) ==
  {j \in Answered : /\ requests[j].route = DeleteTx
                     /\ requests[j].in.transactionid = t
                     /\ Status(j) = status}

\* C2: a DELETE /api/transactions/t whose first statement finds no Transaction
\* row t changes no table (mapping rows of t included, so every user's list is
\* as before), is answered 404 and never schedules the mapping delete.
C2_DeleteMissing ==
  [][\A i \in RequestIds :
       /\ ( /\ Runs(i, DeleteTx, "run1")
            /\ requests'[i].err = NoError
            /\ ~HasTransaction(requests[i].in.transactionid) )
          => /\ requests'[i].changes = 0
             /\ transactions' = transactions
             /\ user_transaction_mapping' = user_transaction_mapping
             /\ \A u \in UserIdValues :
                  SelectTransactionsForUser(Some(u))' = SelectTransactionsForUser(Some(u))
       /\ ( /\ Runs(i, DeleteTx, "cb1")
            /\ requests[i].err = NoError
            /\ requests[i].changes = 0 )
          => /\ Answers(i, DeleteTx)
             /\ requests'[i].response = << [status |-> 404,
                                            json |-> [error |-> "Transaction not found"]] >>
             /\ requests'[i].issued = 1
             /\ UNCHANGED tables]_vars

\* A delete of t is answered 404 while a mapping row of t is stored: the row
\* was created with its transaction, an earlier delete of t removed the
\* transaction and failed on the mapping.
C2_Witness ==
  \E t \in TransactionIdValues :
    /\ MappingRowsOf(t) # <<>>
    /\ \E i \in DeletesOf(t, 404) :
         \E j \in requests[i].after \cap DeletesOf(t, 500) :
           /\ requests[j].issued = 2
           /\ \E c \in requests[j].after :
                /\ requests[c].route = PostTx
                /\ Status(c) = 200
                /\ Json(c).transactionid = t

\* ---- C3
\* C3: a DELETE /api/transactions/t that finds row t removes exactly that row,
\* its mapping delete removes exactly the mapping rows of t, and once it is
\* answered 200 row t is gone and no user's list holds t.
C3_DeleteExisting ==
  /\ [][\A i \in RequestIds :
          LET t == requests[i].in.transactionid
          IN /\ ( /\ Runs(i, DeleteTx, "run1")
                  /\ requests'[i].err = NoError
                  /\ HasTransaction(t) )
                => /\ transactions' =
                       SelectSeq(transactions, LAMBDA row : row.transactionid # t)
                   /\ requests'[i].changes = 1
                   /\ user_transaction_mapping' = user_transaction_mapping
             /\ ( /\ Runs(i, DeleteTx, "run2")
                  /\ requests'[i].err = NoError )
                => /\ user_transaction_mapping' =
                       SelectSeq(user_transaction_mapping,
                                 LAMBDA row : row.transactionid # t)
                   /\ transactions' = transactions
             /\ ( /\ Answers(i, DeleteTx)
                  /\ requests'[i].response[1].status = 200 )
                => /\ requests[i].pc = "cb2"
                   /\ UNCHANGED tables]_vars
  /\ [](\A i \in Answered :
          (requests[i].route = DeleteTx /\ Status(i) = 200) =>
            /\ ~HasTransaction(requests[i].in.transactionid)
            /\ \A u \in UserIdValues :
                 requests[i].in.transactionid
                   \notin TransactionIds(SelectTransactionsForUser(Some(u))))

\* A transaction created with answer 200 was then deleted with answer 200:
\* its row and mapping row are gone, while another transaction and its mapping
\* row are still stored.
C3_Witness ==
  \E t \in TransactionIdValues :
    /\ ~HasTransaction(t)
    /\ MappingRowsOf(t) = <<>>
    /\ \E d \in DeletesOf(t, 200) :
         \E c \in requests[d].after :
           /\ requests[c].route = PostTx
           /\ Status(c) = 200
           /\ Json(c).transactionid = t
    /\ \E o \in TransactionIds(transactions) : MappingRowsOf(o) # <<>>

\* ---- C4
CreateRoutes ==
  { [route |-> "POST /api/users", table |-> "users", key |-> "userid"],
    [route |-> PostTx, table |-> "transactions", key |-> "transactionid"],
    [route |-> "POST /api/resettoken", table |-> "resetTokens", key |-> "id"] }

\* The key a create request holds once its insert has run.
KeyHeld(i) ==
  IF requests[i].route = PostTx /\ requests[i].issued = 2
  THEN requests[i].transactionid ELSE requests[i].lastID

\* C4: every insert of users, transactions and resetTokens is given a key
\* greater than every key its table has ever assigned (keys of deleted rows
\* included); that key is the one the request returns, so a create answered
\* 200 returns a key greater than that of every create answered before its
\* insert ran.
C4_KeysIncrease ==
  /\ [][\A i \in RequestIds : \A c \in CreateRoutes :
          /\ (Runs(i, c.route, "run1") /\ requests'[i].err = NoError)
                => /\ \A old \in assigned[c.table] : requests'[i].lastID > old
                   /\ assigned'[c.table] = assigned[c.table] \cup {requests'[i].lastID}
          /\ (Runs(i, c.route, "cb1") /\ requests'[i].pc = "run2")
                => KeyHeld(i)' = KeyHeld(i)
          /\ (Answers(i, c.route) /\ requests'[i].response[1].status = 200)
                => requests'[i].response[1].json[c.key] = KeyHeld(i)]_vars
  /\ [](\A c \in CreateRoutes : \A i, j \in Answered :
          ( /\ requests[i].route = c.route /\ Status(i) = 200
            /\ requests[j].route = c.route /\ Status(j) = 200
            /\ j \in requests[i].after )
          => Json(i)[c.key] > Json(j)[c.key])

\* A transaction is created with answer 200 after the stored transaction 1 was
\* deleted with answer 200: its key is greater than 1.
C4_Witness ==
  \E i \in Answered :
    /\ requests[i].route = PostTx
    /\ Status(i) = 200
    /\ Json(i).transactionid > 1
    /\ ~HasTransaction(1)
    /\ requests[i].after \cap DeletesOf(1, 200) # {}

\* ---- C5
\* C5: once a DELETE /api/transactions/t has been answered 200, a delete of t
\* whose statement runs later stops at its first statement and is never
\* answered 200: it is answered 404 (500 with the store's message when the
\* store fails that statement).
C5_DeleteTwice ==
  [][\A i \in RequestIds :
       ( /\ Answers(i, DeleteTx)
         /\ requests[i].after \cap DeletesOf(requests[i].in.transactionid, 200) # {} )
       => /\ requests[i].pc = "cb1"
          /\ requests'[i].response[1].status =
               IF requests[i].err = NoError THEN 404 ELSE 500]_vars

\* Transaction 1 is deleted with answer 200, then another transaction is
\* created with answer 200, then a delete of 1 is answered 404.
C5_Witness ==
  \E i \in DeletesOf(1, 404) :
    \E c \in requests[i].after :
      /\ requests[c].route = PostTx
      /\ Status(c) = 200
      /\ requests[c].after \cap DeletesOf(1, 200) # {}

\* ---- C6
\* The mapping row a create request inserts.
MappingRowOf(i) ==
  [userid |-> Val(requests[i].in.body.userid), transactionid |-> requests[i].transactionid]

\* C6 as stated: when a create is answered 200 with transactionid t, the
\* mapping table holds exactly one row of t, the row (u, t).
C6_MappingAtSuccess_AsStated ==
  [][\A i \in RequestIds :
       (Answers(i, PostTx) /\ requests'[i].response[1].status = 200)
       => MappingRowsOf(requests[i].transactionid) = << MappingRowOf(i) >>]_vars

\* C6 amended: when the mapping insert of a create completes, the mapping
\* table holds exactly one row of t, the row (u, t); a create is answered 200
\* only after that insert completed, and at that answer the table still holds
\* exactly that row of t unless a DELETE of t has run since t was inserted, in
\* which case it holds that row or none.
C6_MappingAtSuccess ==
  [][\A i \in RequestIds :
       /\ (Runs(i, PostTx, "run2") /\ requests'[i].err = NoError)
            => MappingRowsOf(requests[i].transactionid)' = << MappingRowOf(i) >>
       /\ (Answers(i, PostTx) /\ requests'[i].response[1].status = 200)
            => /\ requests[i].pc = "cb2"
               /\ requests[i].err = NoError
               /\ requests[i].changes = 1
               /\ MappingRowsOf(requests[i].transactionid) \in {<< MappingRowOf(i) >>, <<>>}
               /\ requests[i].transactionid \notin deletedSinceInsert
                    => MappingRowsOf(requests[i].transactionid) = << MappingRowOf(i) >>]_vars

\* A create has just been answered 200 and the mapping table holds exactly its
\* row, while another request is in flight.
C6_Witness ==
  \E i \in Answered :
    /\ requests[i].route = PostTx
    /\ Status(i) = 200
    /\ MappingRowsOf(requests[i].transactionid) = << MappingRowOf(i) >>
    /\ InFlight # {}

\* ---- C7
StoreError(err) == << [status |-> 500, json |-> [error |-> err]] >>

\* C7: a Transaction insert that fails changes no table, and its callback
\* answers 500 with the store's message without scheduling the mapping insert.
C7_CreateStep1Fails ==
  [][\A i \in RequestIds :
       /\ (Runs(i, PostTx, "run1") /\ requests'[i].err # NoError)
            => UNCHANGED tables
       /\ (Runs(i, PostTx, "cb1") /\ requests[i].err # NoError)
            => /\ Answers(i, PostTx)
               /\ requests'[i].response = StoreError(requests[i].err)
               /\ requests'[i].issued = 1
               /\ UNCHANGED tables]_vars

\* A create whose body has no amount was answered 500 after one statement, and
\* no transaction and no mapping row is stored.
C7_Witness ==
  \E i \in Answered :
    /\ requests[i].route = PostTx
    /\ requests[i].response = StoreError(NotNullFailed("transactions", "amount"))
    /\ requests[i].issued = 1
    /\ transactions = <<>>
    /\ user_transaction_mapping = <<>>

\* ---- C8
\* C8: a mapping insert that fails changes no table, its callback answers 500
\* with the store's message and schedules nothing; from the failure on no
\* mapping row of t is stored, and row t stays stored unless a DELETE of t has
\* run.
C8_CreateStep2Fails ==
  /\ [][\A i \in RequestIds :
          /\ (Runs(i, PostTx, "run2") /\ requests'[i].err # NoError)
               => UNCHANGED tables
          /\ (Runs(i, PostTx, "cb2") /\ requests[i].err # NoError)
               => /\ Answers(i, PostTx)
                  /\ requests'[i].response = StoreError(requests[i].err)
                  /\ requests'[i].issued = 2
                  /\ UNCHANGED tables]_vars
  /\ [](\A i \in DOMAIN requests :
          ( /\ requests[i].route = PostTx
            /\ \/ requests[i].pc = "cb2" /\ requests[i].err # NoError
               \/ requests[i].pc = "done" /\ requests[i].issued = 2 /\ Status(i) = 500 )
          => /\ MappingRowsOf(requests[i].transactionid) = <<>>
             /\ requests[i].transactionid \notin deletedSinceInsert
                  => HasTransaction(requests[i].transactionid))

\* A create without userid was answered 500 after two statements: its
\* Transaction row is stored and no mapping row refers to it.
C8_Witness ==
  \E i \in Answered :
    /\ requests[i].route = PostTx
    /\ requests[i].issued = 2
    /\ requests[i].response =
         StoreError(NotNullFailed("user_transaction_mapping", "userid"))
    /\ HasTransaction(requests[i].transactionid)
    /\ MappingRowsOf(requests[i].transactionid) = <<>>

\* ---- C9
\* C9: a mapping delete that fails changes no table, so the mapping rows of t
\* stay; its callback answers 500 with the store's message and changes no
\* table; row t, deleted by step 1, is not stored again.
C9_DeleteStep2Fails ==
  /\ [][\A i \in RequestIds :
          /\ (Runs(i, DeleteTx, "run2") /\ requests'[i].err # NoError)
               => UNCHANGED tables
          /\ (Runs(i, DeleteTx, "cb2") /\ requests[i].err # NoError)
               => /\ Answers(i, DeleteTx)
                  /\ requests'[i].response = StoreError(requests[i].err)
                  /\ UNCHANGED tables]_vars
  /\ [](\A i \in DOMAIN requests :
          (requests[i].route = DeleteTx /\ requests[i].issued = 2)
          => ~HasTransaction(requests[i].in.transactionid))

\* A delete of t was answered 500 after two statements, after the create of t
\* was answered 200: row t is gone and its mapping row is still stored.
C9_Witness ==
  \E t \in TransactionIdValues :
    /\ ~HasTransaction(t)
    /\ MappingRowsOf(t) # <<>>
    /\ \E d \in DeletesOf(t, 500) :
         /\ requests[d].issued = 2
         /\ \E c \in requests[d].after :
              /\ requests[c].route = PostTx
              /\ Status(c) = 200
              /\ Json(c).transactionid = t

\* ---- C10
GetToken == "GET /api/resettoken"
PostToken == "POST /api/resettoken"

\* The POST /api/resettoken requests whose insert of token x has completed.
TokenInserts(x) ==
  {j \in DOMAIN requests :
     /\ requests[j].route = PostToken
     /\ requests[j].in.body.token = x
     /\ \/ requests[j].pc = "cb1" /\ requests[j].err = NoError
        \/ requests[j].pc = "done" /\ Status(j) = 200}

TokenIdOf(j) == IF requests[j].pc = "done" THEN Json(j).id ELSE requests[j].lastID

\* C10: the select of GET /api/resettoken?token=x returns the stored rows whose
\* token is x and no other: one row per completed insert of x, none when no
\* insert of x completed (or x is absent); the request is answered 200 with
\* those rows.
C10_FindResetTokens ==
  [][\A i \in RequestIds :
       /\ (Runs(i, GetToken, "run1") /\ requests'[i].err = NoError)
            => LET x == requests[i].in.token
                   rows == requests'[i].rows
               IN /\ \A k \in DOMAIN rows :
                       /\ x # NULL
                       /\ rows[k].token = Val(x)
                       /\ \E m \in DOMAIN resetTokens : resetTokens[m] = rows[k]
                  /\ Len(rows) = Cardinality(TokenInserts(x))
                  /\ {rows[k].id : k \in DOMAIN rows} = {TokenIdOf(j) : j \in TokenInserts(x)}
       /\ (Runs(i, GetToken, "cb1") /\ requests[i].err = NoError)
            => /\ Answers(i, GetToken)
               /\ requests'[i].response = << [status |-> 200, json |-> requests[i].rows] >>]_vars

\* A select of a token inserted twice was answered with two rows, both
\* inserts having been answered before it ran.
C10_Witness ==
  \E i \in Answered :
    /\ requests[i].route = GetToken
    /\ Status(i) = 200
    /\ Len(Json(i)) = 2
    /\ Json(i)[1].token = Json(i)[2].token
    /\ Cardinality(requests[i].after) = 2

\* ---- C11
PutUser == "PUT /api/users"
PutPass == "PUT /api/password"

\* No stored user has the userid of request i's body.
NoSuchUser(i) ==
  \A k \in DOMAIN users : ~Matches(users[k], requests[i].in.body.userid)

\* The answer 200 echoing the body's pair.
EchoOf(i) ==
  IF requests[i].route = PutUser
  THEN << [status |-> 200, json |-> [userid |-> requests[i].in.body.userid,
                                     tokenid |-> requests[i].in.body.tokenid]] >>
  ELSE << [status |-> 200, json |-> [userid |-> requests[i].in.body.userid,
                                     password |-> requests[i].in.body.password]] >>

\* C11 as stated: an update of users the store does not fault ends without
\* error whether or not a row has the userid, changes no table when none has,
\* and its callback answers 200 echoing the pair.
C11_BlindUpdate_AsStated ==
  [][\A i \in RequestIds : \A r \in {PutUser, PutPass} :
       /\ (Runs(i, r, "run1") /\ faults' = faults)
            => /\ requests'[i].err = NoError
               /\ NoSuchUser(i) => UNCHANGED tables
       /\ (Runs(i, r, "cb1") /\ requests[i].err = NoError)
            => /\ Answers(i, r)
               /\ requests'[i].response = EchoOf(i)
               /\ UNCHANGED tables]_vars

\* C11 amended: the same, except that PUT /api/password without a password
\* ends without error only when no row has the userid; when a row has it the
\* statement fails on users.password NOT NULL and the answer is 500.
C11_BlindUpdate ==
  [][\A i \in RequestIds : \A r \in {PutUser, PutPass} :
       /\ (Runs(i, r, "run1") /\ faults' = faults)
            => /\ requests'[i].err =
                    IF /\ r = PutPass
                       /\ requests[i].in.body.password = NULL
                       /\ ~NoSuchUser(i)
                    THEN NotNullFailed("users", "password") ELSE NoError
               /\ NoSuchUser(i) => UNCHANGED tables
       /\ (Runs(i, r, "cb1") /\ requests[i].err = NoError)
            => /\ Answers(i, r)
               /\ requests'[i].response = EchoOf(i)
               /\ UNCHANGED tables
       /\ (Runs(i, r, "cb1") /\ requests[i].err # NoError)
            => requests'[i].response = StoreError(requests[i].err)]_vars

\* User 1 is stored and user 2 is not; an update for user 1 and the same update
\* for user 2 were both answered 200 with the pair.
C11_Witness ==
  /\ \E k \in DOMAIN users : users[k].userid = 1
  /\ \A k \in DOMAIN users : users[k].userid # 2
  /\ \E i, j \in Answered :
       /\ requests[i].route = requests[j].route
       /\ requests[i].route \in {PutUser, PutPass}
       /\ requests[i].in.body.userid = Some(1)
       /\ requests[j].in.body.userid = Some(2)
       /\ requests[i].response = EchoOf(i)
       /\ requests[j].response = EchoOf(j)
       /\ Json(i)[IF requests[i].route = PutUser THEN "tokenid" ELSE "password"]
            = Json(j)[IF requests[i].route = PutUser THEN "tokenid" ELSE "password"]

\* ---- C12
Health == "GET /health"
\* A statement of request i completes in this step / its callback runs.
StatementRuns(i) ==
  /\ i \in DOMAIN requests
  /\ requests[i].pc \in {"run1", "run2"}
  /\ requests'[i].pc # requests[i].pc
CallbackRuns(i) ==
  /\ i \in DOMAIN requests
  /\ requests[i].pc \in {"cb1", "cb2"}
  /\ requests'[i].pc # requests[i].pc

\* The store's messages: the faults and the NOT NULL failures.
StoreMessages ==
  StoreFaults \cup
    {NotNullFailed("users", c) : c \in {"username", "password", "email"}} \cup
    {NotNullFailed("resetTokens", c) : c \in {"token", "expiresAt"}} \cup
    {NotNullFailed("transactions", c) : c \in {"isExpense", "amount", "categoryid"}} \cup
    {NotNullFailed("user_transaction_mapping", c) : c \in {"userid", "transactionid"}}

\* 404 comes from the first callback of a delete whose statement ran without
\* error and changed no row, and from nowhere else.
NotFoundOnlyFromDelete(i) ==
  (CallbackRuns(i) /\ requests'[i].pc = "done"
     /\ requests'[i].response[1].status = 404)
  => /\ requests[i].route = DeleteTx
     /\ requests[i].pc = "cb1"
     /\ requests[i].err = NoError
     /\ requests[i].changes = 0

\* C12 as stated: on every route the callback of a failed statement answers
\* 500 with the store's message; 404 only from a delete that changed no row.
C12_StoreErrors_AsStated ==
  [][\A i \in RequestIds :
       /\ (CallbackRuns(i) /\ requests[i].err # NoError)
            => requests'[i].response = StoreError(requests[i].err)
       /\ NotFoundOnlyFromDelete(i)]_vars

\* C12 amended: a failed statement hands the store's message to its callback;
\* on every /api route the callback answers 500 with that message as error;
\* GET /health answers 500 with status "error" and the fixed message
\* "Database connection failed"; 404 only from a delete that changed no row.
C12_StoreErrors ==
  [][\A i \in RequestIds :
       /\ (StatementRuns(i) /\ faults' # faults) => requests'[i].err \in StoreFaults
       /\ (StatementRuns(i) /\ requests'[i].err # NoError)
            => requests'[i].err \in StoreMessages
       /\ (CallbackRuns(i) /\ requests[i].err # NoError /\ requests[i].route # Health)
            => requests'[i].response = StoreError(requests[i].err)
       /\ (CallbackRuns(i) /\ requests[i].err # NoError /\ requests[i].route = Health)
            => requests'[i].response =
                 << [status |-> 500,
                     json |-> [status |-> "error", message |-> "Database connection failed"]] >>
       /\ NotFoundOnlyFromDelete(i)]_vars

\* A health request was answered 500 with the fixed message, a create 500 with
\* the NOT NULL message of the store, and a delete 404.
C12_Witness ==
  \E h, c, d \in Answered :
    /\ requests[h].route = Health
    /\ Status(h) = 500
    /\ Json(h).message = "Database connection failed"
    /\ requests[c].route = PostTx
    /\ requests[c].response = StoreError(NotNullFailed("transactions", "amount"))
    /\ requests[d].route = DeleteTx
    /\ Status(d) = 404

\* ---- C13
\* C13: a request has no response while it is in flight and exactly one from
\* its answer on; a callback that receives an error answers there and then
\* with 500; an answered request schedules no statement and changes in
\* nothing; and every request accepted is answered.
C13_OneResponse ==
  /\ [](\A i \in DOMAIN requests :
          Len(requests[i].response) = IF requests[i].pc = "done" THEN 1 ELSE 0)
  /\ [][\A i \in RequestIds :
          /\ (CallbackRuns(i) /\ requests[i].err # NoError)
               => /\ requests'[i].pc = "done"
                  /\ requests'[i].response[1].status = 500
                  /\ requests'[i].issued = requests[i].issued
          /\ (i \in DOMAIN requests /\ requests[i].pc = "done")
               => requests'[i] = requests[i]]_vars
  /\ \A i \in RequestIds :
       (i \in DOMAIN requests) ~> (i \in DOMAIN requests /\ requests[i].pc = "done")

\* A create whose second insert failed was answered 500, once, and a request
\* whose statement ran after that answer has been answered too.
C13_Witness ==
  \E i, j \in Answered :
    /\ requests[i].route = PostTx
    /\ requests[i].issued = 2
    /\ Status(i) = 500
    /\ Len(requests[i].response) = 1
    /\ i \in requests[j].after

\* ---- C14
\* Delete request i is between its two statements: the first has deleted a
\* row, the second has not run yet.
BetweenDeletes(i) ==
  /\ i \in DOMAIN requests
  /\ requests[i].route = DeleteTx
  /\ \/ requests[i].pc = "cb1" /\ requests[i].err = NoError /\ requests[i].changes > 0
     \/ requests[i].pc = "run2"

\* C14 as stated, of every delete between its two statements: the mapping
\* rows of t are gone and the Transaction row t is still stored.
C14_DeleteIntermediate_AsStated ==
  [](\A i \in DOMAIN requests :
       BetweenDeletes(i) =>
         /\ MappingRowsOf(requests[i].in.transactionid) = <<>>
         /\ HasTransaction(requests[i].in.transactionid))

\* C14 amended: the order is the other one.  While a delete of t is between
\* its two statements the Transaction row t is gone; a mapping row of t is
\* only ever removed when row t is gone, and row t once gone does not come
\* back, so "mapping deleted, Transaction row still stored" never occurs; a
\* list that runs while a delete of t is between its statements omits t.
C14_DeleteIntermediate ==
  /\ [](\A i \in DOMAIN requests :
          BetweenDeletes(i) => ~HasTransaction(requests[i].in.transactionid))
  /\ [][\A t \in TransactionIdValues :
          /\ Len(MappingRowsOf(t))' < Len(MappingRowsOf(t))
               => ~HasTransaction(t) /\ ~HasTransaction(t)'
          /\ (t \in assigned["transactions"] /\ ~HasTransaction(t))
               => ~HasTransaction(t)']_vars
  /\ [][\A i \in RequestIds :
          (Runs(i, GetTx, "run1") /\ requests'[i].err = NoError) =>
            \A d \in DOMAIN requests :
              BetweenDeletes(d) =>
                requests[d].in.transactionid \notin TransactionIds(requests'[i].rows)]_vars

\* A delete of t is between its statements: row t is gone, the mapping row of
\* t is still stored, and a list of the owner that ran after the create of t
\* was answered has come back without t.
C14_Witness ==
  \E d, g \in InFlight :
    /\ BetweenDeletes(d)
    /\ ~HasTransaction(requests[d].in.transactionid)
    /\ MappingRowsOf(requests[d].in.transactionid) # <<>>
    /\ requests[g].route = GetTx
    /\ requests[g].pc = "cb1"
    /\ requests[g].err = NoError
    /\ requests[g].rows = <<>>
    /\ \E c \in requests[g].after :
         /\ c \in CreatedFor(requests[g].in.userId)
         /\ Json(c).transactionid = requests[d].in.transactionid

\* ---- C15
\* Create request i is between its two inserts: the first has stored a row,
\* the second has not run yet.
BetweenInserts(i) ==
  /\ i \in DOMAIN requests
  /\ requests[i].route = PostTx
  /\ \/ requests[i].pc = "cb1" /\ requests[i].err = NoError
     \/ requests[i].pc = "run2"

\* C15 as stated: while a create is between its two inserts, its Transaction
\* row t is stored and no mapping row of t is; a list that runs then omits t.
C15_CreateIntermediate_AsStated ==
  /\ [](\A i \in DOMAIN requests :
          BetweenInserts(i) =>
            /\ HasTransaction(KeyHeld(i))
            /\ MappingRowsOf(KeyHeld(i)) = <<>>)
  /\ [][\A g \in RequestIds :
          (Runs(g, GetTx, "run1") /\ requests'[g].err = NoError) =>
            \A i \in DOMAIN requests :
              BetweenInserts(i) => KeyHeld(i) \notin TransactionIds(requests'[g].rows)]_vars

\* C15 amended: ... no mapping row of t is stored, and row t is stored unless
\* a DELETE of t has run since t was inserted; a list that runs then omits t.
C15_CreateIntermediate ==
  /\ [](\A i \in DOMAIN requests :
          BetweenInserts(i) =>
            /\ MappingRowsOf(KeyHeld(i)) = <<>>
            /\ KeyHeld(i) \notin deletedSinceInsert => HasTransaction(KeyHeld(i))
            /\ KeyHeld(i) \in deletedSinceInsert => ~HasTransaction(KeyHeld(i)))
  /\ [][\A g \in RequestIds :
          (Runs(g, GetTx, "run1") /\ requests'[g].err = NoError) =>
            \A i \in DOMAIN requests :
              BetweenInserts(i) => KeyHeld(i) \notin TransactionIds(requests'[g].rows)]_vars

\* A create of user u is between its inserts: its row t is stored without a
\* mapping row, and a list of u has come back without t but with a
\* transaction of u inserted after t, so the list ran after row t was stored.
C15_Witness ==
  \E c, g \in InFlight :
    /\ BetweenInserts(c)
    /\ HasTransaction(KeyHeld(c))
    /\ MappingRowsOf(KeyHeld(c)) = <<>>
    /\ requests[g].route = GetTx
    /\ requests[g].pc = "cb1"
    /\ requests[g].err = NoError
    /\ requests[g].in.userId = requests[c].in.body.userid
    /\ KeyHeld(c) \notin TransactionIds(requests[g].rows)
    /\ \E later \in TransactionIds(requests[g].rows) : later > KeyHeld(c)

\* ---- C16
\* C16: in every reachable state the mapping table holds at most one row of
\* each transactionid.
C16_OneMappingPerTransaction ==
  \A k, m \in DOMAIN user_transaction_mapping :
    user_transaction_mapping[k].transactionid = user_transaction_mapping[m].transactionid
      => k = m

\* Two creates of different users have each stored their mapping row, a third
\* create has failed at its mapping insert, and two requests were in flight
\* together.
C16_Witness ==
  /\ Len(user_transaction_mapping) = 2
  /\ user_transaction_mapping[1].userid # user_transaction_mapping[2].userid
  /\ \E i \in Answered :
       /\ requests[i].route = PostTx
       /\ requests[i].issued = 2
       /\ Status(i) = 500
  /\ \E i, j \in DOMAIN requests :
       i < j /\ requests[j].pc = "cb2" /\ requests[i].pc = "cb2"

\* ---- C17
\* The stored Transaction rows that have a mapping row (u, t).
OwnedBy(u) ==
  SelectSeq(transactions,
            LAMBDA t : \E k \in DOMAIN user_transaction_mapping :
                         user_transaction_mapping[k] =
                           [userid |-> u, transactionid |-> t.transactionid])

\* C17: in every reachable state the select of user u yields exactly the
\* stored Transaction rows that have a mapping row (u, t), each once; the
\* select of GET /api/transactions/u hands those rows to its callback.
C17_ListExactlyOwned ==
  /\ [](\A u \in UserIdValues : SelectTransactionsForUser(Some(u)) = OwnedBy(u))
  /\ [][\A i \in RequestIds :
          (Runs(i, GetTx, "run1") /\ requests'[i].err = NoError)
            => requests'[i].rows = OwnedBy(Val(requests[i].in.userId))]_vars

\* A list of user u has returned one row while two Transaction rows are
\* stored, the other one mapped to another user.
C17_Witness ==
  \E i \in DOMAIN requests :
    /\ requests[i].route = GetTx
    /\ requests[i].pc = "cb1"
    /\ requests[i].err = NoError
    /\ Len(requests[i].rows) = 1
    /\ Len(transactions) = 2
    /\ \E k \in DOMAIN user_transaction_mapping :
         /\ user_transaction_mapping[k].userid # Val(requests[i].in.userId)
         /\ HasTransaction(user_transaction_mapping[k].transactionid)
         /\ user_transaction_mapping[k].transactionid
              \notin TransactionIds(requests[i].rows)

\* ---- C18
SchemaProvisioned ==
  /\ db.schema = TableSet
  /\ db.running = {}
  /\ \A t \in TableSet : db.runs[t] = 1

\* C18: each of the four CREATE TABLE statements runs once, one at a time and
\* in the order of the block, and all four do run; a statement of a request
\* handler runs only when all four have completed, however early the request
\* arrived; from then on the handle is open, not locked and its queue empty.
C18_ProvisioningFirst ==
  /\ [](\A t \in TableSet : db.runs[t] <= 1)
  /\ [](Cardinality(db.running) <= 1)
  /\ [](\A k, m \in DOMAIN Tables :
          (k < m /\ (db.runs[Tables[m]] = 1 \/ Tables[m] \in db.running))
            => db.runs[Tables[k]] = 1)
  /\ [][\A i \in RequestIds :
          StatementRuns(i) => SchemaProvisioned /\ db.queue = <<>>]_vars
  /\ [](\A i \in DOMAIN requests :
          requests[i].pc # "run1" => db.open /\ ~db.locked /\ db.queue = <<>>)
  /\ <>SchemaProvisioned

\* A request arrived while the schema was being provisioned: its statement
\* waited in the handle's queue, ran after the four CREATE TABLE statements and
\* was answered 200.
C18_Witness ==
  /\ SchemaProvisioned
  /\ \E i \in db.waited \cap Answered :
       /\ requests[i].route = PostTx
       /\ Status(i) = 200
       /\ HasTransaction(Json(i).transactionid)

\* ---- C19
\* A mapping row of t is stored and the Transaction row t, once stored, is not.
Dangling(t) ==
  /\ MappingRowsOf(t) # <<>>
  /\ ~HasTransaction(t)
  /\ t \in assigned["transactions"]

\* A delete of t has removed row t and has not run its mapping delete yet.
DeletePending(t) ==
  \E d \in DOMAIN requests : BetweenDeletes(d) /\ requests[d].in.transactionid = t

\* C19 as stated: once a mapping row of t is stored without row t, no step
\* removes that mapping row.
C19_DanglingIsPermanent_AsStated ==
  [][\A t \in TransactionIdValues :
       Dangling(t) => MappingRowsOf(t)' = MappingRowsOf(t)]_vars

\* C19 amended: once a mapping row of t is stored without row t and no delete
\* of t is between its two statements, it stays so for ever: no step changes
\* the mapping rows of t or stores row t again; a delete of t whose statement
\* runs then changes no row and is answered 404 (500 when the store fails the
\* statement) without a second statement; a list that runs then omits t.
C19_DanglingIsPermanent ==
  [][\A t \in TransactionIdValues :
       (Dangling(t) /\ ~DeletePending(t)) =>
         /\ MappingRowsOf(t)' = MappingRowsOf(t)
         /\ Dangling(t)'
         /\ ~DeletePending(t)'
         /\ \A i \in RequestIds :
              /\ (Runs(i, DeleteTx, "run1") /\ requests[i].in.transactionid = t)
                   => requests'[i].changes = 0
              /\ (Runs(i, DeleteTx, "cb1") /\ requests[i].in.transactionid = t)
                   => /\ Answers(i, DeleteTx)
                      /\ requests'[i].response[1].status =
                           IF requests[i].err = NoError THEN 404 ELSE 500
              /\ (Runs(i, GetTx, "run1") /\ requests'[i].err = NoError)
                   => t \notin TransactionIds(requests'[i].rows)]_vars

\* The mapping row of t is stored without row t and no delete is in flight: a
\* delete of t failed at its second statement, and a list of the owner that
\* ran after that answer has been answered without t.
C19_Witness ==
  \E t \in TransactionIdValues :
    /\ Dangling(t)
    /\ ~DeletePending(t)
    /\ \E g \in Answered :
         /\ requests[g].route = GetTx
         /\ Status(g) = 200
         /\ Json(g) = <<>>
         /\ \E k \in DOMAIN user_transaction_mapping :
              user_transaction_mapping[k] =
                [userid |-> Val(requests[g].in.userId), transactionid |-> t]
         /\ \E d \in requests[g].after \cap DeletesOf(t, 500) : requests[d].issued = 2

\* ---- C20
\* The transactionids a mapping row can hold: the keys the requests of one
\* behaviour can be given, and 0.
MappedIds == 0..MaxRequests

\* A mapping row of t is stored and the Transaction row t is not.
Unreferenced(t) == MappingRowsOf(t) # <<>> /\ ~HasTransaction(t)

NoDeleteRequest == \A i \in DOMAIN requests : requests[i].route # DeleteTx

\* C20: while no delete has been requested every mapping row refers to a
\* stored Transaction row.  A mapping row of t is without its Transaction row
\* only after the first statement of a delete of t has run; it gets there by
\* that statement removing row t from under the mapping row, or by the mapping
\* insert of the create of t running after a delete of t removed row t; and
\* it outlasts the delete that removed row t only if that delete's second
\* statement fails or has run before the mapping insert.
C20_MappingReferences ==
  /\ [](\A k \in DOMAIN user_transaction_mapping :
          user_transaction_mapping[k].transactionid \in MappedIds)
  /\ [](NoDeleteRequest => \A t \in MappedIds : ~Unreferenced(t))
  /\ [](\A t \in MappedIds :
          Unreferenced(t) =>
            /\ t \in deletedSinceInsert
            /\ \E d \in DOMAIN requests :
                 /\ requests[d].route = DeleteTx
                 /\ requests[d].in.transactionid = t
                 /\ requests[d].pc # "run1")
  /\ [][\A t \in MappedIds :
          (~Unreferenced(t) /\ Unreferenced(t)') =>
            \/ \E d \in DOMAIN requests :
                 /\ Runs(d, DeleteTx, "run1")
                 /\ requests[d].in.transactionid = t
                 /\ requests'[d].changes = 1
                 /\ MappingRowsOf(t) # <<>>
            \/ \E c \in DOMAIN requests :
                 /\ Runs(c, PostTx, "run2")
                 /\ requests[c].transactionid = t
                 /\ requests'[c].err = NoError
                 /\ t \in deletedSinceInsert]_vars
  /\ [][\A t \in MappedIds :
          (Unreferenced(t) /\ DeletePending(t) /\ ~DeletePending(t)') =>
            \E d \in DOMAIN requests :
              /\ Runs(d, DeleteTx, "run2")
              /\ requests[d].in.transactionid = t
              /\ IF requests'[d].err # NoError
                 THEN Unreferenced(t)' ELSE MappingRowsOf(t)' = <<>>]_vars

\* A create was answered 200 with transactionid t and a delete of t was
\* answered 200, yet the mapping row of t is stored without row t: the delete
\* ran between the two inserts of the create.
C20_Witness ==
  \E t \in MappedIds :
    /\ Unreferenced(t)
    /\ DeletesOf(t, 200) # {}
    /\ \E c \in Answered :
         /\ requests[c].route = PostTx
         /\ Status(c) = 200
         /\ Json(c).transactionid = t
====
